---- MODULE Spec2Model ----
(***************************************************************************)
(* bling: a line colorizer.  The repository holds two revisions of the    *)
(* program, src/bling.go and src/unnamed/part_000.  They share main,      *)
(* parseArgs, run and findMatchingSegments and differ in how a segment's  *)
(* end is stored by makeColorizedSegments and sliced by printColorized    *)
(* (exclusive end in bling.go, inclusive end in part_000).  The variable  *)
(* prog says which revision a behaviour runs.                             *)
(*                                                                         *)
(* Strings are sequences of one-character strings; a line is a sequence   *)
(* of bytes, so Go index i is TLA+ index i + 1.                            *)
(***************************************************************************)
EXTENDS Integers, Sequences, FiniteSets

VARIABLES
    prog,       \* the revision being run
    args,       \* os.Args[1:]
    input,      \* the bytes the reader delivers before it ends
    inputEnd,   \* how the reader ends after those bytes: "EOF" or "ERR"
    off,        \* bytes already consumed by the bufio.Reader
    pc,         \* position in main / run
    exprs,      \* exprsMap returned by parseArgs (NIL before / on error)
    rc,         \* reader returned by parseArgs: NIL, "stdin" or "file"
    err,        \* main's err: NIL or the error parseArgs returned
    runErr,     \* the value run returned: NIL (not returned), "nil", "ERR"
    exit,       \* process exit status, NIL while running
    stdout,     \* the lines written with Println, each a token sequence
    stderr,     \* the diagnostics written through package log
    line,       \* run's current line
    matches,    \* findMatchingSegments' result for line
    colorized   \* makeColorizedSegments' result for line

vars == <<prog, args, input, inputEnd, off, pc, exprs, rc, err, runErr, exit,
          stdout, stderr, line, matches, colorized>>

NIL == "<nil>"

-----------------------------------------------------------------------------
(* Bounds of the model *)

MaxArgs == 2        \* longest argument list
MaxInput == 3       \* longest input stream, in bytes
MaxLen == 3         \* longest line handed directly to the segmenter
MaxSpans == 2       \* most spans handed directly to the segmenter

-----------------------------------------------------------------------------
(* Colors *)

BLACK == <<"b", "l", "a", "c", "k">>
RED == <<"r", "e", "d">>
GREEN == <<"g", "r", "e", "e", "n">>
YELLOW == <<"y", "e", "l", "l", "o", "w">>
BLUE == <<"b", "l", "u", "e">>
MAGENTA == <<"m", "a", "g", "e", "n", "t", "a">>
WHITE == <<"w", "h", "i", "t", "e">>
RESET == <<"r", "e", "s", "e", "t">>
OVERLAP == <<"o", "v", "e", "r", "l", "a", "p">>

\* The color table.  A Go map lookup of a missing key yields the zero value.
colors(c) ==
    CASE c = BLACK -> "ESC[30m"
      [] c = RED -> "ESC[31m"
      [] c = GREEN -> "ESC[32m"
      [] c = YELLOW -> "ESC[33m"
      [] c = BLUE -> "ESC[34m"
      [] c = MAGENTA -> "ESC[35m"
      [] c = <<"c", "y", "a", "n">> -> "ESC[36m"
      [] c = WHITE -> "ESC[37m"
      [] c = RESET -> "ESC[0m"
      [] c = OVERLAP -> "ESC[37;1;4m"
      [] OTHER -> NIL

-----------------------------------------------------------------------------
(* Segments *)

newSegment(begin, end, col) == [begin |-> begin, end |-> end, c |-> col]

\* mutant: the end is taken as exclusive
containsExclusive(s, x) == s.begin <= x /\ x < s.end

contains(s, x) == s.begin <= x /\ x <= s.end

-----------------------------------------------------------------------------
(* Package regexp, restricted to patterns made of literal bytes and        *)
(* parentheses: such a pattern compiles iff its parentheses are balanced,  *)
(* and then matches exactly the literal left when they are removed.        *)

RECURSIVE parenDepth(_, _, _)
parenDepth(pattern, k, depth) ==
    IF k > Len(pattern) THEN depth
    ELSE IF pattern[k] = "(" THEN parenDepth(pattern, k + 1, depth + 1)
    ELSE IF pattern[k] = ")"
         THEN IF depth = 0 THEN -1 ELSE parenDepth(pattern, k + 1, depth - 1)
    ELSE parenDepth(pattern, k + 1, depth)

IsParen(ch) == ch \in {"(", ")"}

\* regexp.Compile: NIL stands for a non-nil error
regexpCompile(pattern) ==
    IF parenDepth(pattern, 1, 0) # 0 THEN NIL
    ELSE SelectSeq(pattern, LAMBDA ch : ~IsParen(ch))

matchAt(expr, b, pos) ==
    /\ pos + Len(expr) <= Len(b)
    /\ \A j \in 1..Len(expr) : b[pos + j] = expr[j]

\* leftmost match starting at or after pos, as <<start, end>>, or <<>>
doExecute(expr, b, pos) ==
    LET starts == {p \in pos..Len(b) : matchAt(expr, b, p)}
    IN  IF starts = {} THEN <<>>
        ELSE LET p == CHOOSE q \in starts : \A r \in starts : q <= r
             IN  <<p, p + Len(expr)>>

\* Regexp.FindAllSubmatchIndex(b, -1): successive non-overlapping matches;
\* an empty match right after the previous match is skipped.
RECURSIVE allMatches(_, _, _, _)
allMatches(expr, b, pos, prevMatchEnd) ==
    IF pos > Len(b) THEN <<>>
    ELSE LET m == doExecute(expr, b, pos)
         IN  IF m = <<>> THEN <<>>
             ELSE LET accept == ~(m[2] = pos /\ m[1] = prevMatchEnd)
                      next == IF m[2] = pos THEN pos + 1 ELSE m[2]
                      rest == allMatches(expr, b, next, m[2])
                  IN  IF accept THEN <<m>> \o rest ELSE rest

FindAllSubmatchIndex(expr, b) == allMatches(expr, b, 0, -1)

-----------------------------------------------------------------------------
(* Matcher *)

\* the spans the inner loop appends for one expression, each tagged with the
\* color, expression and occurrence that produced it
spansOf(ln, c, k, expr) ==
    LET idxs == FindAllSubmatchIndex(expr, ln)
    IN  {[seg |-> newSegment(idxs[j][1], idxs[j][2] - 1, c), id |-> <<c, k, j>>] :
            j \in 1..Len(idxs)}

\* everything appended to matches before the sort
appended(ln, exs) ==
    UNION {UNION {spansOf(ln, c, k, exs[c][k]) : k \in 1..Len(exs[c])} :
            c \in DOMAIN exs}

\* sort.Slice by begin, which is not stable, over a slice filled in the
\* random order of a map iteration: any order with ascending begin
RECURSIVE sortSlice(_)
sortSlice(S) ==
    IF S = {} THEN {<<>>}
    ELSE LET least == {x \in S : \A y \in S : x.seg.begin <= y.seg.begin}
         IN  UNION {{<<x.seg>> \o t : t \in sortSlice(S \ {x})} : x \in least}

\* the set of slices findMatchingSegments may return
findMatchingSegments(ln, exs) == sortSlice(appended(ln, exs))

-----------------------------------------------------------------------------
(* Segmenter *)

\* mutant: the first span containing the position decides, a second one
\* does not turn the position into OVERLAP
RECURSIVE scanMatchesFirstWins(_, _, _, _, _)
scanMatchesFirstWins(ms, k, i, c, overlaps) ==
    IF k > Len(ms) THEN c
    ELSE IF contains(ms[k], i)
         THEN IF overlaps + 1 = 1
              THEN scanMatchesFirstWins(ms, k + 1, i, ms[k].c, overlaps + 1)
              ELSE c
    ELSE scanMatchesFirstWins(ms, k + 1, i, c, overlaps)

\* the inner loop over matches at position i, from matches[k] on
RECURSIVE scanMatches(_, _, _, _, _)
scanMatches(ms, k, i, c, overlaps) ==
    IF k > Len(ms) THEN c
    ELSE IF contains(ms[k], i)
         THEN IF overlaps + 1 = 1
              THEN scanMatches(ms, k + 1, i, ms[k].c, overlaps + 1)
              ELSE OVERLAP
    ELSE scanMatches(ms, k + 1, i, c, overlaps)

\* the outer loop of bling.go from position i on
RECURSIVE segmentLoop(_, _, _, _, _)
segmentLoop(ln, ms, i, segments, segment) ==
    IF i >= Len(ln) THEN Append(segments, segment)
    ELSE LET c == scanMatches(ms, 1, i, RESET, 0)
         IN  IF segment.c = c
             THEN segmentLoop(ln, ms, i + 1, segments,
                              [segment EXCEPT !.end = @ + 1])
             ELSE segmentLoop(ln, ms, i + 1, Append(segments, segment),
                              newSegment(i, i + 1, c))

\* mutant: a new segment is opened as (i, i), the inclusive end of part_000
RECURSIVE segmentLoopInclusive(_, _, _, _, _)
segmentLoopInclusive(ln, ms, i, segments, segment) ==
    IF i >= Len(ln) THEN Append(segments, segment)
    ELSE LET c == scanMatches(ms, 1, i, RESET, 0)
         IN  IF segment.c = c
             THEN segmentLoopInclusive(ln, ms, i + 1, segments,
                                       [segment EXCEPT !.end = @ + 1])
             ELSE segmentLoopInclusive(ln, ms, i + 1, Append(segments, segment),
                                       newSegment(i, i, c))

makeColorizedSegmentsInclusive(ln, ms) ==
    segmentLoopInclusive(ln, ms, 0, <<>>, newSegment(0, 0, RESET))

\* bling.go: a segment is [begin, end)
makeColorizedSegments(ln, ms) ==
    segmentLoop(ln, ms, 0, <<>>, newSegment(0, 0, RESET))

\* the outer loop of part_000 from position i on
RECURSIVE segmentLoop0(_, _, _, _, _)
segmentLoop0(ln, ms, i, segments, segment) ==
    IF i >= Len(ln) THEN Append(segments, segment)
    ELSE LET c == scanMatches(ms, 1, i, RESET, 0)
         IN  IF segment.c = c
             THEN segmentLoop0(ln, ms, i + 1, segments,
                               [segment EXCEPT !.end = @ + 1])
             ELSE segmentLoop0(ln, ms, i + 1, Append(segments, segment),
                               newSegment(i, i, c))

\* mutant: the first segment starts out as (0, 0), as it does in bling.go
makeColorizedSegments0FromZero(ln, ms) ==
    segmentLoop0(ln, ms, 0, <<>>, newSegment(0, 0, RESET))

\* part_000: a segment is [begin, end]
makeColorizedSegments0(ln, ms) ==
    segmentLoop0(ln, ms, 0, <<>>, newSegment(0, -1, RESET))

-----------------------------------------------------------------------------
(* Renderer *)

\* the Go slice expression b[lo:hi]
slice(b, lo, hi) == [k \in 1..(hi - lo) |-> b[lo + k]]

\* mutant: the slice stops one byte short
RECURSIVE printColorizedShort(_, _, _)
printColorizedShort(ln, segments, k) ==
    IF k > Len(segments) THEN <<>>
    ELSE <<colors(segments[k].c)>>
         \o slice(ln, segments[k].begin, segments[k].end - 1)
         \o <<colors(RESET)>>
         \o printColorizedShort(ln, segments, k + 1)

\* bling.go: what the loop writes for segments[k..]
RECURSIVE printColorized(_, _, _)
printColorized(ln, segments, k) ==
    IF k > Len(segments) THEN <<>>
    ELSE <<colors(segments[k].c)>>
         \o slice(ln, segments[k].begin, segments[k].end)
         \o <<colors(RESET)>>
         \o printColorized(ln, segments, k + 1)

\* part_000: what the loop writes for segments[k..]
RECURSIVE printColorized0(_, _, _)
printColorized0(ln, segments, k) ==
    IF k > Len(segments) THEN <<>>
    ELSE <<colors(segments[k].c)>>
         \o slice(ln, segments[k].begin, segments[k].end + 1)
         \o <<colors(RESET)>>
         \o printColorized0(ln, segments, k + 1)

-----------------------------------------------------------------------------
(* Argument parsing *)

Word ==
    {"a", "b", "c", "d", "e", "f", "g", "h", "i", "j", "k", "l", "m", "n", "o",
     "p", "q", "r", "s", "t", "u", "v", "w", "x", "y", "z", "_",
     "0", "1", "2", "3", "4", "5", "6", "7", "8", "9"}

\* the length of the run of word characters of arg that starts at index k
RECURSIVE wordRun(_, _)
wordRun(arg, k) ==
    IF k > Len(arg) \/ arg[k] \notin Word THEN 0 ELSE 1 + wordRun(arg, k + 1)

\* re.FindStringSubmatch(arg) for re = ^-(\w+)=(.*) on an argument without
\* newline: <<whole match, color, pattern>>, or <<>> when arg does not match
FindStringSubmatch(arg) ==
    IF Len(arg) >= 1 /\ arg[1] = "-"
    THEN LET n == wordRun(arg, 2)
         IN  IF n >= 1 /\ n + 2 <= Len(arg) /\ arg[n + 2] = "="
             THEN <<arg, SubSeq(arg, 2, n + 1), SubSeq(arg, n + 3, Len(arg))>>
             ELSE <<>>
    ELSE <<>>

\* the paths os.Open opens
Files == {<<"f">>}

osOpen(path) == IF path \in Files THEN "file" ELSE NIL

\* exprs[col] = append(exprs[col], expr)
appendExpr(exs, col, expr) ==
    IF col \in DOMAIN exs
    THEN [exs EXCEPT ![col] = Append(@, expr)]
    ELSE [c \in (DOMAIN exs) \cup {col} |-> IF c = col THEN <<expr>> ELSE exs[c]]

failed(msg, log) == [exprs |-> NIL, rc |-> NIL, err |-> msg, log |-> log]

\* mutant: an argument that is no binding ends the loop wherever it stands
RECURSIVE parseLoopAnyFile(_, _, _, _)
parseLoopAnyFile(as, i, exs, log) ==
    IF i > Len(as)
    THEN [exprs |-> exs, rc |-> "stdin", err |-> NIL, log |-> log]
    ELSE LET parts == FindStringSubmatch(as[i])
         IN  IF Len(parts) # 3
             THEN IF osOpen(as[i]) = NIL THEN failed("open", log)
                  ELSE [exprs |-> exs, rc |-> osOpen(as[i]), err |-> NIL,
                        log |-> log]
             ELSE LET col == parts[2]
                      pattern == parts[3]
                      logged == Append(log, "Parts")
                  IN  IF colors(col) = NIL
                      THEN failed("Unrecognized color", logged)
                      ELSE IF regexpCompile(pattern) = NIL
                      THEN failed("Invalid pattern", logged)
                      ELSE parseLoopAnyFile(as, i + 1,
                                     appendExpr(exs, col, regexpCompile(pattern)),
                                     logged)

\* the loop of parseArgs from args[i] on (i counts from 1) and what follows it
RECURSIVE parseLoop(_, _, _, _)
parseLoop(as, i, exs, log) ==
    IF i > Len(as)
    THEN [exprs |-> exs, rc |-> "stdin", err |-> NIL, log |-> log]
    ELSE LET parts == FindStringSubmatch(as[i])
         IN  IF Len(parts) # 3
             THEN IF i # Len(as) THEN failed("Invalid argument", log)
                  ELSE IF osOpen(as[i]) = NIL THEN failed("open", log)
                  ELSE [exprs |-> exs, rc |-> osOpen(as[i]), err |-> NIL,
                        log |-> log]
             ELSE LET col == parts[2]
                      pattern == parts[3]
                      logged == Append(log, "Parts")
                  IN  IF colors(col) = NIL
                      THEN failed("Unrecognized color", logged)
                      ELSE IF regexpCompile(pattern) = NIL
                      THEN failed("Invalid pattern", logged)
                      ELSE parseLoop(as, i + 1,
                                     appendExpr(exs, col, regexpCompile(pattern)),
                                     logged)

parseArgs(as) == parseLoop(as, 1, <<>>, <<>>)

-----------------------------------------------------------------------------
(* The program *)

Progs == {"bling.go", "part_000"}

Byte == {"a", "b", "\n"}

ArgPool ==
    { <<"-", "r", "e", "d", "=", "a", "b">>,
      <<"-", "b", "l", "u", "e", "=", "b", "a">>,
      <<"-", "r", "e", "d", "=", "(", "b", ")">>,
      <<"-", "p", "u", "r", "p", "l", "e", "=", "a">>,
      <<"-", "r", "e", "d", "=", "(", "b">>,
      <<"f">>,
      <<"x">> }

SeqsUpTo(S, n) == UNION {[1..k -> S] : k \in 0..n}

Init ==
    /\ prog \in Progs
    /\ args \in SeqsUpTo(ArgPool, MaxArgs)
    /\ input \in SeqsUpTo(Byte, MaxInput)
    /\ inputEnd \in {"EOF", "ERR"}
    /\ off = 0
    /\ pc = "main"
    /\ exprs = NIL
    /\ rc = NIL
    /\ err = NIL
    /\ runErr = NIL
    /\ exit = NIL
    /\ stdout = <<>>
    /\ stderr = <<>>
    /\ line = <<>>
    /\ matches = <<>>
    /\ colorized = <<>>

\* main up to the call of run: log.Fatalf and log.Fatal exit with status 1
Main ==
    /\ pc = "main"
    /\ IF Len(args) + 1 < 2
       THEN /\ stderr' = Append(stderr, "Usage")
            /\ exit' = 1
            /\ pc' = "exited"
            /\ UNCHANGED <<exprs, rc, err>>
       ELSE LET r == parseArgs(args)
            IN  /\ exprs' = r.exprs
                /\ rc' = r.rc
                /\ err' = r.err
                /\ IF r.err # NIL
                   THEN /\ stderr' = stderr \o r.log \o <<r.err>>
                        /\ exit' = 1
                        /\ pc' = "exited"
                   ELSE /\ stderr' = stderr \o r.log
                        /\ exit' = exit
                        /\ pc' = "read"
    /\ UNCHANGED <<prog, args, input, inputEnd, off, runErr, stdout, line,
                   matches, colorized>>

\* the index of the first newline of b, 0 when it has none
firstNewline(b) ==
    IF \E k \in 1..Len(b) : b[k] = "\n"
    THEN CHOOSE k \in 1..Len(b) : b[k] = "\n" /\ \A j \in 1..(k - 1) : b[j] # "\n"
    ELSE 0

\* br.ReadBytes('\n'): the bytes up to and including the newline, or the
\* bytes left and the error that ended the stream
ReadBytes(b, end) ==
    IF firstNewline(b) # 0
    THEN [line |-> SubSeq(b, 1, firstNewline(b)), err |-> NIL]
    ELSE [line |-> b, err |-> end]

\* run: one read, the handling of its error and the stripping of the newline
Read ==
    /\ pc = "read"
    /\ LET r == ReadBytes(SubSeq(input, off + 1, Len(input)), inputEnd)
       IN  /\ off' = off + Len(r.line)
           /\ IF r.err # NIL
              THEN /\ runErr' = IF r.err = "EOF" THEN "nil" ELSE r.err
                   /\ pc' = "returned"
                   /\ line' = line
              ELSE /\ line' = IF r.line[Len(r.line)] = "\n"
                              THEN SubSeq(r.line, 1, Len(r.line) - 1)
                              ELSE r.line
                   /\ pc' = "match"
                   /\ runErr' = runErr
    /\ UNCHANGED <<prog, args, input, inputEnd, exprs, rc, err, exit, stdout,
                   stderr, matches, colorized>>

Match ==
    /\ pc = "match"
    /\ \E ms \in findMatchingSegments(line, exprs) : matches' = ms
    /\ pc' = "segment"
    /\ UNCHANGED <<prog, args, input, inputEnd, off, exprs, rc, err, runErr,
                   exit, stdout, stderr, line, colorized>>

\* the segmenter and the renderer of revision p, as run calls them
segmenter(p, ln, ms) ==
    IF p = "bling.go" THEN makeColorizedSegments(ln, ms)
    ELSE makeColorizedSegments0(ln, ms)

renderer(p, ln, segments) ==
    IF p = "bling.go" THEN printColorized(ln, segments, 1)
    ELSE printColorized0(ln, segments, 1)

Segment ==
    /\ pc = "segment"
    /\ colorized' = segmenter(prog, line, matches)
    /\ pc' = "print"
    /\ UNCHANGED <<prog, args, input, inputEnd, off, exprs, rc, err, runErr,
                   exit, stdout, stderr, line, matches>>

\* printColorized ends the line with Println
Render ==
    /\ pc = "print"
    /\ stdout' = Append(stdout, renderer(prog, line, colorized))
    /\ pc' = "read"
    /\ UNCHANGED <<prog, args, input, inputEnd, off, exprs, rc, err, runErr,
                   exit, stderr, line, matches, colorized>>

\* main after run: the value run returned is dropped, the deferred Close
\* runs and the process ends with status 0
Return ==
    /\ pc = "returned"
    /\ exit' = 0
    /\ pc' = "exited"
    /\ UNCHANGED <<prog, args, input, inputEnd, off, exprs, rc, err, runErr,
                   stdout, stderr, line, matches, colorized>>

Next == Main \/ Read \/ Match \/ Segment \/ Render \/ Return

Spec == Init /\ [][Next]_vars

-----------------------------------------------------------------------------
(* The segmenter and the renderer on their own: run has read a line and    *)
(* findMatchingSegments has returned any spans over it, sorted by begin.   *)

Text == <<"a", "b", "c", "d", "e", "f">>

SpanColors == {RED, BLUE, RESET, OVERLAP}

\* the spans a match can yield on a line of length n; an empty match at
\* position b is the span (b, b - 1)
Spans(n) ==
    {newSegment(b, e, c) : <<b, e, c>> \in
        {t \in (0..n) \X (-1..(n - 1)) \X SpanColors : t[1] - 1 <= t[2]}}

SortedSpans(n) ==
    {ms \in SeqsUpTo(Spans(n), MaxSpans) :
        \A k \in 1..(Len(ms) - 1) : ms[k].begin <= ms[k + 1].begin}

ExampleLine == Text

ExampleMatches == <<newSegment(0, 2, RED), newSegment(2, 4, BLUE)>>

SegInit ==
    /\ prog \in Progs
    /\ \/ /\ line \in {SubSeq(Text, 1, n) : n \in 0..MaxLen}
          /\ matches \in SortedSpans(Len(line))
       \/ /\ line = ExampleLine
          /\ matches = ExampleMatches
    /\ pc = "segment"
    /\ args = <<>>
    /\ input = <<>>
    /\ inputEnd = "EOF"
    /\ off = 0
    /\ exprs = <<>>
    /\ rc = "stdin"
    /\ err = NIL
    /\ runErr = NIL
    /\ exit = NIL
    /\ stdout = <<>>
    /\ stderr = <<>>
    /\ colorized = <<>>

SegNext == Segment \/ Render

SegSpec == SegInit /\ [][SegNext]_vars

-----------------------------------------------------------------------------
(* What the claims speak of *)

\* the positions of the line a segment of revision p covers: the ones its
\* printColorized writes for it
covered(s) == s.begin..(s.end - 1)

covered0(s) == s.begin..s.end

Range(p, s) == IF p = "bling.go" THEN covered(s) ELSE covered0(s)

\* one past the last position of a segment, whether or not it covers any
Limit(p, s) == IF p = "bling.go" THEN s.end ELSE s.end + 1

Positions == 0..(Len(line) - 1)

\* the indices of the spans of ms that contain position x
Covering(ms, x) == {j \in 1..Len(ms) : ms[j].begin <= x /\ x <= ms[j].end}

\* the per-position resolved color
Resolved(ms, x) ==
    IF Covering(ms, x) = {} THEN RESET
    ELSE IF Cardinality(Covering(ms, x)) = 1
         THEN ms[CHOOSE j \in Covering(ms, x) : TRUE].c
    ELSE OVERLAP

\* the color of the segments of colorized that cover position x
ColorsAt(x) ==
    {colorized[k].c : k \in {j \in 1..Len(colorized) : x \in Range(prog, colorized[j])}}

Segmented == pc = "print"

\* C1: the segments returned for a line of length N cover [0, N) exactly:
\* the first begins at 0, each ends where the next begins, the last ends at
\* N, so that every position lies in exactly one segment and none lies
\* outside the line.
C1_FullCoverage ==
    Segmented =>
        /\ Len(colorized) >= 1
        /\ colorized[1].begin = 0
        /\ Limit(prog, colorized[Len(colorized)]) = Len(line)
        /\ \A k \in 1..Len(colorized) :
            /\ colorized[k].begin <= Limit(prog, colorized[k])
            /\ Range(prog, colorized[k]) \subseteq Positions
            /\ k < Len(colorized) =>
                Limit(prog, colorized[k]) = colorized[k + 1].begin
        /\ \A x \in Positions :
            Cardinality({k \in 1..Len(colorized) :
                            x \in Range(prog, colorized[k])}) = 1

C1_Witness ==
    /\ Segmented
    /\ Len(line) >= 3
    /\ Len(matches) >= 2
    /\ Len(colorized) >= 3

\* C2: the segment covering a position has the position's resolved color:
\* reset under no span, the span's color under one span, overlap under two
\* or more spans.
C2_ResolvedColor ==
    Segmented => \A x \in Positions : ColorsAt(x) = {Resolved(matches, x)}

\* two spans of different colors share a position and one of them goes on
\* over a position the other does not touch
C2_Witness ==
    /\ Segmented
    /\ \E x, y \in Positions : \E i, j \in 1..Len(matches) :
        /\ matches[i].c \notin {matches[j].c, OVERLAP, RESET}
        /\ matches[j].c \notin {OVERLAP, RESET}
        /\ {i, j} \subseteq Covering(matches, x)
        /\ Covering(matches, y) = {i}
        /\ ColorsAt(x) = {OVERLAP}
        /\ ColorsAt(y) = {matches[i].c}

\* the colors of the spans that contain position x
SpanColorsAt(x) == {matches[j].c : j \in Covering(matches, x)}

\* C6: a position covered only by spans of one color C is rendered in C, and
\* overlap is used only where spans of two different colors cover it.
C6_SameColorMerges ==
    Segmented =>
        \A x \in Positions :
            /\ Cardinality(SpanColorsAt(x)) = 1 => ColorsAt(x) = SpanColorsAt(x)
            /\ OVERLAP \in ColorsAt(x) => Cardinality(SpanColorsAt(x)) >= 2

AsSpan(p, s) == newSegment(s.begin, Limit(p, s) - 1, s.c)

AsSpans(p, segments) == [k \in 1..Len(segments) |-> AsSpan(p, segments[k])]

Runs ==
    Cardinality({x \in Positions :
        x = 0 \/ Resolved(matches, x) # Resolved(matches, x - 1)})

\* C9: for a non-empty line the segments are the run-length encoding of the
\* resolved colors: none is empty, neighbours differ in color, there is one
\* per run, and the example line yields its four segments exactly.
C9_RunLengthEncoding ==
    (Segmented /\ Len(line) >= 1) =>
        /\ \A k \in 1..Len(colorized) : Range(prog, colorized[k]) # {}
        /\ \A k \in 1..(Len(colorized) - 1) : colorized[k].c # colorized[k + 1].c
        /\ Len(colorized) = Runs
        /\ (line = ExampleLine /\ matches = ExampleMatches) =>
            colorized = <<newSegment(0, 1, RED), newSegment(2, 2, OVERLAP),
                          newSegment(3, 4, BLUE), newSegment(5, 5, RESET)>>

Permutations(n) == {f \in [1..n -> 1..n] : \A i, j \in 1..n : f[i] = f[j] => i = j}

\* C10: every permutation of the span list segments to the same sequence.
C10_OrderIndependent ==
    Segmented =>
        \A f \in Permutations(Len(matches)) :
            segmenter(prog, line, [k \in 1..Len(matches) |-> matches[f[k]]])
                = colorized

\* spans of different colors, some overlapping, in an order that matters to
\* a scan that lets the first or the last span decide
C10_Witness ==
    /\ Segmented
    /\ Len(matches) >= 2
    /\ \E i, j \in 1..Len(matches) : matches[i].c # matches[j].c
    /\ \E x \in Positions : Cardinality(Covering(matches, x)) >= 2
    /\ \E x \in Positions : Cardinality(Covering(matches, x)) = 1
    /\ Len(colorized) >= 3

-----------------------------------------------------------------------------
(* Claims about the renderer and the program *)

\* the escape sequences of the color table
Escapes ==
    {"ESC[30m", "ESC[31m", "ESC[32m", "ESC[33m", "ESC[34m", "ESC[35m",
     "ESC[36m", "ESC[37m", "ESC[0m", "ESC[37;1;4m"}

IsEscape(t) == t \in Escapes

\* the literal text of a rendered line
TextOf(out) == SelectSeq(out, LAMBDA t : ~IsEscape(t))

Rendered == pc = "read" /\ stdout # <<>>

LastLine == stdout[Len(stdout)]

\* C8: the text written between the escape sequences of a rendered line is
\* the line, byte for byte, and every stretch of text is followed by the
\* reset sequence, which therefore ends the rendered line.
C8_TextPreserved ==
    Rendered =>
        /\ TextOf(LastLine) = line
        /\ Len(LastLine) >= 2
        /\ LastLine[Len(LastLine)] = "ESC[0m"
        /\ \A i \in 1..(Len(LastLine) - 1) :
            (~IsEscape(LastLine[i]) /\ IsEscape(LastLine[i + 1]))
                => LastLine[i + 1] = "ESC[0m"

C8_Witness ==
    /\ Rendered
    /\ Len(line) >= 3
    /\ Len(colorized) >= 3
    /\ \E k \in 1..Len(colorized) : colorized[k].c \notin {RESET, OVERLAP}
    /\ TextOf(LastLine) = line

\* the lines of a stream: the stretches between newlines, a last stretch
\* without newline included
RECURSIVE InputLines(_)
InputLines(b) ==
    IF b = <<>> THEN <<>>
    ELSE IF firstNewline(b) = 0 THEN <<b>>
    ELSE <<SubSeq(b, 1, firstNewline(b) - 1)>>
         \o InputLines(SubSeq(b, firstNewline(b) + 1, Len(b)))

\* C3: when run has returned nil and the program has ended, standard output
\* holds one rendered line per input line, in input order, a last line
\* without newline included.
C3_EveryLineRendered ==
    (pc = "exited" /\ runErr = "nil") =>
        /\ Len(stdout) = Len(InputLines(input))
        /\ \A k \in 1..Len(stdout) : TextOf(stdout[k]) = InputLines(input)[k]

\* C4: a read error other than end of input makes run return it and the
\* program end as failed; only clean end of input ends it with success.
C4_ReadErrorIsFatal ==
    pc = "exited" =>
        /\ (runErr # NIL /\ inputEnd = "ERR") => runErr = "ERR"
        /\ runErr = "ERR" => exit # 0
        /\ exit = 0 => runErr = "nil"

\* an argument list with a configuration error: a non-final argument that is
\* no binding, a binding with an unknown color or a pattern that does not
\* compile, a final path that cannot be opened
ConfigError(as) ==
    \E i \in 1..Len(as) :
        LET parts == FindStringSubmatch(as[i])
        IN  \/ Len(parts) # 3 /\ i # Len(as)
            \/ Len(parts) # 3 /\ i = Len(as) /\ as[i] \notin Files
            \/ Len(parts) = 3 /\ colors(parts[2]) = NIL
            \/ Len(parts) = 3 /\ regexpCompile(parts[3]) = NIL

\* C5: with a configuration error in the arguments nothing is ever read or
\* written to standard output and run is never entered; the program ends
\* with status 1, parseArgs having returned an error, no map and no reader.
C5_ConfigErrorsFatal ==
    ConfigError(args) =>
        /\ pc \in {"main", "exited"}
        /\ stdout = <<>>
        /\ off = 0
        /\ runErr = NIL
        /\ pc = "exited" =>
            /\ err # NIL
            /\ exprs = NIL
            /\ rc = NIL
            /\ exit = 1
            /\ stderr # <<>>
            /\ stderr[Len(stderr)] = err

\* the error sits behind a valid binding and there is input to read
C5_Witness ==
    /\ pc = "exited"
    /\ ConfigError(args)
    /\ Len(args) = 2
    /\ ~ConfigError(<<args[1]>>)
    /\ Len(FindStringSubmatch(args[1])) = 3
    /\ input # <<>>
    /\ exit = 1

====
